---- MODULE Spec2Model ----
(***************************************************************************)
(* Model of the two example programs of the repository:                    *)
(*   static-hello-world/C/hello_world.c  : prints argv, envp and the       *)
(*                                         auxiliary vector of the process *)
(*   static-foreign-apps/C/matrix_mult.c : multiplies two 3x3 matrices     *)
(*                                                                         *)
(* Three specifications are defined:                                       *)
(*   Spec / FairSpec : main() of hello_world.c over a startup stack        *)
(*   SpecLabel       : repeated calls of aux_var_type_to_str               *)
(*   SpecMatrix      : main() of matrix_mult.c                             *)
(*                                                                         *)
(* Memory of hello_world is a sequence of 64-bit words, addressed by word  *)
(* index (char** arithmetic moves by one word, aux_vec_t* arithmetic by    *)
(* two).  Words used in the model are small, so 64-bit arithmetic is exact.*)
(* printf lines are modelled by the argument values handed to printf.      *)
(***************************************************************************)
EXTENDS Integers, Sequences, FiniteSets

VARIABLES
    \* ---- hello_world.c: main
    mem,        \* startup stack: argv slots, NULL, envp slots, NULL, aux words
    argc,       \* parameter argc
    argv,       \* parameter argv (word index of the first argv slot)
    envp,       \* parameter envp (word index of the first envp slot)
    pc,         \* position in main
    ptr,        \* char** ptr of the three pointer loops
    envpc,      \* int envpc
    aux,        \* aux_vec_t * aux (word index of the entry's key)
    out,        \* lines printed so far
    reads,      \* word indices dereferenced so far
    \* ---- aux_var_type_to_str called on its own
    type,       \* argument of the call in progress / last call
    ret,        \* value returned by the last completed call
    lpc,        \* "idle", "called" or "returned"
    \* ---- matrix_mult.c: main
    mpc,        \* position in main
    alloc,      \* names of the heap blocks that are currently valid
    matrix1,    \* cells written so far (flat index -> uint32)
    matrix2,
    res_matrix,
    i, j, k,    \* loop counters
    sum,        \* uint32_t sum
    mout        \* values printed so far

hvars == <<mem, argc, argv, envp, pc, ptr, envpc, aux, out, reads>>
lvars == <<type, ret, lpc>>
mvars == <<mpc, alloc, matrix1, matrix2, res_matrix, i, j, k, sum, mout>>
vars  == <<hvars, lvars, mvars>>

----------------------------------------------------------------------------
(* Bounds of the model *)

MaxArgc == 1    \* at most this many argv slots
MaxEnvc == 2    \* at most this many envp slots
MaxAux  == 3    \* at most this many aux entries inside the stack
MaxOob  == 1    \* at most this many entries decoded past the end of the stack
MaxTag  == 63   \* tags 0..MaxTag are handed to aux_var_type_to_str

StringPtrs == {4096}           \* non-NULL char* values stored in argv/envp
AuxKeys    == {0, 6, 18}       \* keys stored in (or read as) aux entries
AuxVals    == {0, 4096}        \* values stored in (or read as) aux entries
Tags       == 0..MaxTag \cup {9999}

----------------------------------------------------------------------------
(* enum aux_var_type *)

aux_var_type ==
    [ AtNull |-> 0, AtIgnore |-> 1, AtExecfd |-> 2, AtPhdr |-> 3,
      AtPhent |-> 4, AtPhnum |-> 5, AtPagesz |-> 6, AtBase |-> 7,
      AtFlags |-> 8, AtEntry |-> 9, AtNotelf |-> 10, AtUid |-> 11,
      AtEuid |-> 12, AtGid |-> 13, AtEgid |-> 14, AtPlatform |-> 15,
      AtHwcap |-> 16, AtClktck |-> 17, AtSecure |-> 23,
      AtBasePlatform |-> 24, AtRandom |-> 25, AtHwcap2 |-> 26,
      AtExecFn |-> 31, AtSysinfo |-> 32, AtSysinfoEhdr |-> 33,
      AtL1iCachesize |-> 40, AtL1iCachegeometry |-> 41,
      AtL1dCachesize |-> 42, AtL1dCachegeometry |-> 43,
      AtL2Cachesize |-> 44, AtL2Cachegeometry |-> 45,
      AtL3Cachesize |-> 46, AtL3Cachegeometry |-> 47 ]

(* The case labels of the switch in aux_var_type_to_str, each with the     *)
(* string its branch returns.                                              *)
SwitchCases ==
    { <<aux_var_type.AtNull, "AtNull">>,
      <<aux_var_type.AtIgnore, "AtIgnore">>,
      <<aux_var_type.AtExecfd, "AtExecfd">>,
      <<aux_var_type.AtPhdr, "AtPhdr">>,
      <<aux_var_type.AtPhent, "AtPhent">>,
      <<aux_var_type.AtPhnum, "AtPhnum">>,
      <<aux_var_type.AtPagesz, "AtPagesz">>,
      <<aux_var_type.AtBase, "AtBase">>,
      <<aux_var_type.AtFlags, "AtFlags">>,
      <<aux_var_type.AtEntry, "AtEntry">>,
      <<aux_var_type.AtNotelf, "AtNotelf">>,
      <<aux_var_type.AtUid, "AtUid">>,
      <<aux_var_type.AtEuid, "AtEuid">>,
      <<aux_var_type.AtGid, "AtGid">>,
      <<aux_var_type.AtEgid, "AtEgid">>,
      <<aux_var_type.AtPlatform, "AtPlatform">>,
      <<aux_var_type.AtHwcap, "AtHwcap">>,
      <<aux_var_type.AtClktck, "AtClktck">>,
      <<aux_var_type.AtSecure, "AtSecure">>,
      <<aux_var_type.AtBasePlatform, "AtBasePlatform">>,
      <<aux_var_type.AtRandom, "AtRandom">>,
      <<aux_var_type.AtHwcap2, "AtHwcap2">>,
      <<aux_var_type.AtExecFn, "AtExecFn">>,
      <<aux_var_type.AtSysinfo, "AtSysinfo">>,
      <<aux_var_type.AtSysinfoEhdr, "AtSysinfoEhdr">> }

(* Mutant: the default branch falls into the first case.                   *)
aux_var_type_to_str_default(t) ==
    IF \E c \in SwitchCases : c[1] = t
    THEN (CHOOSE c \in SwitchCases : c[1] = t)[2]
    ELSE "AtNull"

\* char * aux_var_type_to_str(uint64_t type)
aux_var_type_to_str(t) ==
    IF \E c \in SwitchCases : c[1] = t
    THEN (CHOOSE c \in SwitchCases : c[1] = t)[2]
    ELSE "Unknown"

----------------------------------------------------------------------------
(* aux_var_type_to_str called on its own *)

LabelIdle == type = 0 /\ ret = "" /\ lpc = "idle"

(* a caller passes a tag *)
Call(t) ==
    /\ lpc \in {"idle", "returned"}
    /\ type' = t
    /\ lpc' = "called"
    /\ UNCHANGED <<ret, hvars, mvars>>

(* the switch selects a branch and the function returns *)
Return ==
    /\ lpc = "called"
    /\ ret' = aux_var_type_to_str(type)
    /\ lpc' = "returned"
    /\ UNCHANGED <<type, hvars, mvars>>

----------------------------------------------------------------------------
(* hello_world.c: main *)

(* One printf call: which call it is, the %p argument, the %s argument and *)
(* the two numeric arguments.                                              *)
Line(kind, p, text, key, val) ==
    [kind |-> kind, p |-> p, text |-> text, key |-> key, val |-> val]

(* Words a load from address a can deliver: the stored word inside the     *)
(* stack, any word outside of it (the load is undefined there).            *)
Loaded(a) ==
    IF a \in DOMAIN mem THEN {mem[a]} ELSE AuxKeys \cup AuxVals

(* Mutant: the scan starts on the NULL slot of envp.                       *)
AuxStart_onNull(e, n) == e + n

\* aux = (aux_vec_t *) (envp + envpc + 1)
AuxStart(e, n) == e + n + 1

(* Mutant: the cursor advances by one word instead of one entry.           *)
AuxNext_word(a) == a + 1

(* aux++ on an aux_vec_t*: two words *)
AuxNext(a) == a + 2

(* Mutant: the closing line is printed for the wrong constant.             *)
TerminatorLine_ignore(a) ==
    Line("aux", a, aux_var_type_to_str(aux_var_type.AtIgnore),
         aux_var_type.AtIgnore, 0)

(* the printf after the decode loop: constants AtNull and 0, not the entry *)
TerminatorLine(a) ==
    Line("aux", a, aux_var_type_to_str(aux_var_type.AtNull),
         aux_var_type.AtNull, 0)

(* The stack handed to main: argv slots, NULL, envp slots, NULL, and the   *)
(* words that follow (aux entries, key then value).                        *)
HelloInit ==
    /\ \E na \in 0..MaxArgc, ne \in 0..MaxEnvc, n \in 0..MaxAux :
         \E as \in [1..na -> StringPtrs], es \in [1..ne -> StringPtrs],
            ks \in [1..n -> AuxKeys], vs \in [1..n -> AuxVals] :
           /\ mem = as \o <<0>> \o es \o <<0>> \o
                    [w \in 1..(2 * n) |->
                       IF w % 2 = 1 THEN ks[(w + 1) \div 2] ELSE vs[w \div 2]]
           /\ argc = na
           /\ argv = 1
           /\ envp = na + 2
    /\ pc = "start"
    /\ ptr = 0
    /\ envpc = 0
    /\ aux = 0
    /\ out = <<>>
    /\ reads = {}

HelloIdle ==
    /\ mem = <<>> /\ argc = 0 /\ argv = 0 /\ envp = 0 /\ pc = "idle"
    /\ ptr = 0 /\ envpc = 0 /\ aux = 0 /\ out = <<>> /\ reads = {}

(* the two opening printf calls; ptr = argv *)
Hello ==
    /\ pc = "start"
    /\ out' = out \o << Line("hello", 0, "hello world from linux", 0, 0),
                        Line("argc", 0, "", argc, 0) >>
    /\ ptr' = argv
    /\ pc' = "argv_loop"
    /\ UNCHANGED <<mem, argc, argv, envp, envpc, aux, reads, lvars, mvars>>

(* for (ptr = argv; *ptr; ptr++) printf *)
ArgvPrint ==
    /\ pc = "argv_loop"
    /\ mem[ptr] # 0
    /\ out' = Append(out, Line("arg", 0, "", 0, mem[ptr]))
    /\ reads' = reads \cup {ptr}
    /\ ptr' = ptr + 1
    /\ UNCHANGED <<mem, argc, argv, envp, pc, envpc, aux, lvars, mvars>>

(* *ptr is NULL: envpc = 0; ptr = envp *)
ArgvExit ==
    /\ pc = "argv_loop"
    /\ mem[ptr] = 0
    /\ reads' = reads \cup {ptr}
    /\ envpc' = 0
    /\ ptr' = envp
    /\ pc' = "count_loop"
    /\ UNCHANGED <<mem, argc, argv, envp, aux, out, lvars, mvars>>

(* for (ptr = envp; *ptr; ptr++) envpc++ *)
EnvCount ==
    /\ pc = "count_loop"
    /\ mem[ptr] # 0
    /\ reads' = reads \cup {ptr}
    /\ envpc' = envpc + 1
    /\ ptr' = ptr + 1
    /\ UNCHANGED <<mem, argc, argv, envp, pc, aux, out, lvars, mvars>>

(* *ptr is NULL: print the count; ptr = envp *)
EnvCountExit ==
    /\ pc = "count_loop"
    /\ mem[ptr] = 0
    /\ reads' = reads \cup {ptr}
    /\ out' = Append(out, Line("envc", 0, "", envpc, 0))
    /\ ptr' = envp
    /\ pc' = "env_loop"
    /\ UNCHANGED <<mem, argc, argv, envp, envpc, aux, lvars, mvars>>

(* for (ptr = envp; *ptr; ptr++) printf *)
EnvPrint ==
    /\ pc = "env_loop"
    /\ mem[ptr] # 0
    /\ out' = Append(out, Line("env", 0, "", 0, mem[ptr]))
    /\ reads' = reads \cup {ptr}
    /\ ptr' = ptr + 1
    /\ UNCHANGED <<mem, argc, argv, envp, pc, envpc, aux, lvars, mvars>>

(* *ptr is NULL: header, aux = envp + envpc + 1, the two %p lines *)
EnvPrintExit ==
    /\ pc = "env_loop"
    /\ mem[ptr] = 0
    /\ reads' = reads \cup {ptr}
    /\ aux' = AuxStart(envp, envpc)
    /\ out' = out \o << Line("auxhdr", 0, "AT-Values / auxiliary vector", 0, 0),
                        Line("envp", envp, "", 0, 0),
                        Line("auxp", aux', "", 0, 0) >>
    /\ pc' = "aux_loop"
    /\ UNCHANGED <<mem, argc, argv, envp, ptr, envpc, lvars, mvars>>

(* Mutant: the loop body clears the key it has printed.                    *)
AuxPrint_clobber ==
    /\ pc = "aux_loop"
    /\ aux + 1 <= Len(mem) + 2 * MaxOob
    /\ \E kw \in Loaded(aux), vw \in Loaded(aux + 1) :
         /\ kw # 0
         /\ out' = Append(out, Line("aux", aux, aux_var_type_to_str(kw), kw, vw))
    /\ reads' = reads \cup {aux, aux + 1}
    /\ aux' = AuxNext(aux)
    /\ mem' = IF aux \in DOMAIN mem THEN [mem EXCEPT ![aux] = 0] ELSE mem
    /\ UNCHANGED <<argc, argv, envp, pc, ptr, envpc, lvars, mvars>>

(* for (; aux->key; aux++) printf(aux, label, aux->key, aux->val) *)
AuxPrint ==
    /\ pc = "aux_loop"
    /\ aux + 1 <= Len(mem) + 2 * MaxOob
    /\ \E kw \in Loaded(aux), vw \in Loaded(aux + 1) :
         /\ kw # 0
         /\ out' = Append(out, Line("aux", aux, aux_var_type_to_str(kw), kw, vw))
    /\ reads' = reads \cup {aux, aux + 1}
    /\ aux' = AuxNext(aux)
    /\ UNCHANGED <<mem, argc, argv, envp, pc, ptr, envpc, lvars, mvars>>

(* aux->key is 0: the loop ends *)
AuxExit ==
    /\ pc = "aux_loop"
    /\ aux + 1 <= Len(mem) + 2 * MaxOob
    /\ 0 \in Loaded(aux)
    /\ reads' = reads \cup {aux}
    /\ pc' = "aux_end"
    /\ UNCHANGED <<mem, argc, argv, envp, ptr, envpc, aux, out, lvars, mvars>>

(* the cursor has left the stack: the load of aux->key or aux->val faults  *)
AuxSegv ==
    /\ pc = "aux_loop"
    /\ IF aux \in DOMAIN mem
       THEN aux + 1 \notin DOMAIN mem /\ mem[aux] # 0
       ELSE TRUE
    /\ pc' = "segv"
    /\ UNCHANGED <<mem, argc, argv, envp, ptr, envpc, aux, out, reads,
                   lvars, mvars>>

(* the closing printf; main returns *)
AuxEnd ==
    /\ pc = "aux_end"
    /\ out' = Append(out, TerminatorLine(aux))
    /\ pc' = "done"
    /\ UNCHANGED <<mem, argc, argv, envp, ptr, envpc, aux, reads, lvars, mvars>>

----------------------------------------------------------------------------
(* matrix_mult.c: main *)
(* uint32_t values of the model stay far below 2^31, so + and * are exact; *)
(* the claim about wrapping is stated as a bound on every operand.         *)

DIM == 3

HeapGarbage == {0, 1}     \* what a never-written heap cell may hold

(* m[idx] = v on a heap block of which only the written cells are defined  *)
Store(m, idx, v) ==
    [n \in (DOMAIN m) \cup {idx} |-> IF n = idx THEN v ELSE m[n]]

(* values a read of m[idx] can deliver *)
Cell(m, idx) == IF idx \in DOMAIN m THEN {m[idx]} ELSE HeapGarbage

(* Mutant: the row stride is one short.                                     *)
Flat_stride(r, c) == r * (DIM - 1) + c

(* the flat index r * DIM + c *)
Flat(r, c) == r * DIM + c

MatrixInit ==
    /\ mpc = "start" /\ alloc = {}
    /\ matrix1 = <<>> /\ matrix2 = <<>> /\ res_matrix = <<>>
    /\ i = 0 /\ j = 0 /\ k = 0 /\ sum = 0 /\ mout = <<>>

MatrixIdle ==
    /\ mpc = "idle" /\ alloc = {}
    /\ matrix1 = <<>> /\ matrix2 = <<>> /\ res_matrix = <<>>
    /\ i = 0 /\ j = 0 /\ k = 0 /\ sum = 0 /\ mout = <<>>

(* the two malloc calls for matrix1 and matrix2; either may return NULL *)
M_Alloc ==
    /\ mpc = "start"
    /\ \E blocks \in SUBSET {"matrix1", "matrix2"} : alloc' = blocks
    /\ i' = 0
    /\ mpc' = "init_i"
    /\ UNCHANGED <<matrix1, matrix2, res_matrix, j, k, sum, mout, hvars, lvars>>

(* initialisation, outer loop: i < DIM *)
M_InitI ==
    /\ mpc = "init_i" /\ i < DIM
    /\ j' = 0
    /\ mpc' = "init_j"
    /\ UNCHANGED <<alloc, matrix1, matrix2, res_matrix, i, k, sum, mout,
                   hvars, lvars>>

(* initialisation, outer loop ends *)
M_InitIExit ==
    /\ mpc = "init_i" /\ ~(i < DIM)
    /\ mpc' = "alloc_res"
    /\ UNCHANGED <<alloc, matrix1, matrix2, res_matrix, i, j, k, sum, mout,
                   hvars, lvars>>

(* initialisation, inner loop: j < DIM *)
M_InitJ ==
    /\ mpc = "init_j" /\ j < DIM
    /\ mpc' = "init_body"
    /\ UNCHANGED <<alloc, matrix1, matrix2, res_matrix, i, j, k, sum, mout,
                   hvars, lvars>>

(* num = i * DIM + j; matrix1[num] = num; matrix2[num] = num; j++ *)
M_InitBody ==
    /\ mpc = "init_body"
    /\ {"matrix1", "matrix2"} \subseteq alloc
    /\ matrix1' = Store(matrix1, Flat(i, j), Flat(i, j))
    /\ matrix2' = Store(matrix2, Flat(i, j), Flat(i, j))
    /\ j' = j + 1
    /\ mpc' = "init_j"
    /\ UNCHANGED <<alloc, res_matrix, i, k, sum, mout, hvars, lvars>>

(* one of the two blocks is NULL: the store through it faults *)
M_InitFault ==
    /\ mpc = "init_body"
    /\ ~({"matrix1", "matrix2"} \subseteq alloc)
    /\ matrix1' = IF "matrix1" \in alloc
                  THEN Store(matrix1, Flat(i, j), Flat(i, j)) ELSE matrix1
    /\ mpc' = "segv"
    /\ UNCHANGED <<alloc, matrix2, res_matrix, i, j, k, sum, mout, hvars, lvars>>

(* initialisation, inner loop ends: i++ *)
M_InitJExit ==
    /\ mpc = "init_j" /\ ~(j < DIM)
    /\ i' = i + 1
    /\ mpc' = "init_i"
    /\ UNCHANGED <<alloc, matrix1, matrix2, res_matrix, j, k, sum, mout,
                   hvars, lvars>>

(* the malloc call for res_matrix; it may return NULL *)
M_AllocRes ==
    /\ mpc = "alloc_res"
    /\ \E ok \in BOOLEAN :
         alloc' = IF ok THEN alloc \cup {"res_matrix"} ELSE alloc
    /\ i' = 0
    /\ mpc' = "mul_i"
    /\ UNCHANGED <<matrix1, matrix2, res_matrix, j, k, sum, mout, hvars, lvars>>

(* multiplication, outer loop: i < DIM *)
M_MulI ==
    /\ mpc = "mul_i" /\ i < DIM
    /\ j' = 0
    /\ mpc' = "mul_j"
    /\ UNCHANGED <<alloc, matrix1, matrix2, res_matrix, i, k, sum, mout,
                   hvars, lvars>>

(* multiplication, outer loop ends; the opening bracket is printed *)
M_MulIExit ==
    /\ mpc = "mul_i" /\ ~(i < DIM)
    /\ mout' = Append(mout, <<"[", 0>>)
    /\ i' = 0
    /\ mpc' = "print_i"
    /\ UNCHANGED <<alloc, matrix1, matrix2, res_matrix, j, k, sum, hvars, lvars>>

(* multiplication, middle loop: j < DIM; sum = 0; k = 0 *)
M_MulJ ==
    /\ mpc = "mul_j" /\ j < DIM
    /\ sum' = 0
    /\ k' = 0
    /\ mpc' = "mul_k"
    /\ UNCHANGED <<alloc, matrix1, matrix2, res_matrix, i, j, mout, hvars, lvars>>

(* multiplication, middle loop ends: i++ *)
M_MulJExit ==
    /\ mpc = "mul_j" /\ ~(j < DIM)
    /\ i' = i + 1
    /\ mpc' = "mul_i"
    /\ UNCHANGED <<alloc, matrix1, matrix2, res_matrix, j, k, sum, mout,
                   hvars, lvars>>

(* multiplication, inner loop: k < DIM *)
M_MulK ==
    /\ mpc = "mul_k" /\ k < DIM
    /\ mpc' = "mul_body"
    /\ UNCHANGED <<alloc, matrix1, matrix2, res_matrix, i, j, k, sum, mout,
                   hvars, lvars>>

(* sum += matrix1[i * DIM + k] * matrix2[k * DIM + j]; k++ *)
M_MulBody ==
    /\ mpc = "mul_body"
    /\ \E a \in Cell(matrix1, Flat(i, k)), b \in Cell(matrix2, Flat(k, j)) :
         sum' = sum + a * b
    /\ k' = k + 1
    /\ mpc' = "mul_k"
    /\ UNCHANGED <<alloc, matrix1, matrix2, res_matrix, i, j, mout, hvars, lvars>>

(* inner loop ends: res_matrix[i * DIM + j] = sum; j++ *)
M_MulKExit ==
    /\ mpc = "mul_k" /\ ~(k < DIM)
    /\ "res_matrix" \in alloc
    /\ res_matrix' = Store(res_matrix, Flat(i, j), sum)
    /\ j' = j + 1
    /\ mpc' = "mul_j"
    /\ UNCHANGED <<alloc, matrix1, matrix2, i, k, sum, mout, hvars, lvars>>

(* res_matrix is NULL: the store through it faults *)
M_MulFault ==
    /\ mpc = "mul_k" /\ ~(k < DIM)
    /\ "res_matrix" \notin alloc
    /\ mpc' = "segv"
    /\ UNCHANGED <<alloc, matrix1, matrix2, res_matrix, i, j, k, sum, mout,
                   hvars, lvars>>

(* printing, outer loop: i < DIM; the row's opening bracket *)
M_PrintI ==
    /\ mpc = "print_i" /\ i < DIM
    /\ mout' = Append(mout, <<"  [", 0>>)
    /\ j' = 0
    /\ mpc' = "print_j"
    /\ UNCHANGED <<alloc, matrix1, matrix2, res_matrix, i, k, sum, hvars, lvars>>

(* printing, inner loop: printf("%u,", res_matrix[i * DIM + j]); j++ *)
M_PrintJ ==
    /\ mpc = "print_j" /\ j < DIM
    /\ \E v \in Cell(res_matrix, Flat(i, j)) :
         mout' = Append(mout, <<"%u,", v>>)
    /\ j' = j + 1
    /\ UNCHANGED <<mpc, alloc, matrix1, matrix2, res_matrix, i, k, sum,
                   hvars, lvars>>

(* printing, inner loop ends: the row's closing bracket; i++ *)
M_PrintJExit ==
    /\ mpc = "print_j" /\ ~(j < DIM)
    /\ mout' = Append(mout, <<"]", 0>>)
    /\ i' = i + 1
    /\ mpc' = "print_i"
    /\ UNCHANGED <<alloc, matrix1, matrix2, res_matrix, j, k, sum, hvars, lvars>>

(* printing ends: the closing bracket, the three free calls, return *)
M_Free ==
    /\ mpc = "print_i" /\ ~(i < DIM)
    /\ mout' = Append(mout, <<"]", 0>>)
    /\ alloc' = {}
    /\ mpc' = "done"
    /\ UNCHANGED <<matrix1, matrix2, res_matrix, i, j, k, sum, hvars, lvars>>

----------------------------------------------------------------------------
(* Specifications *)

Init == HelloInit /\ LabelIdle /\ MatrixIdle

Next ==
    \/ Hello
    \/ ArgvPrint
    \/ ArgvExit
    \/ EnvCount
    \/ EnvCountExit
    \/ EnvPrint
    \/ EnvPrintExit
    \/ AuxPrint
    \/ AuxExit
    \/ AuxSegv
    \/ AuxEnd

Spec == Init /\ [][Next]_vars

(* the process runs main until it returns or faults *)
FairSpec == Init /\ [][Next]_vars /\ WF_vars(Next)

InitLabel == HelloIdle /\ LabelIdle /\ MatrixIdle

NextLabel ==
    \/ \E t \in Tags : Call(t)
    \/ Return

SpecLabel == InitLabel /\ [][NextLabel]_vars

InitMatrix == HelloIdle /\ LabelIdle /\ MatrixInit

NextMatrix ==
    \/ M_Alloc
    \/ M_InitI
    \/ M_InitIExit
    \/ M_InitJ
    \/ M_InitBody
    \/ M_InitFault
    \/ M_InitJExit
    \/ M_AllocRes
    \/ M_MulI
    \/ M_MulIExit
    \/ M_MulJ
    \/ M_MulJExit
    \/ M_MulK
    \/ M_MulBody
    \/ M_MulKExit
    \/ M_MulFault
    \/ M_PrintI
    \/ M_PrintJ
    \/ M_PrintJExit
    \/ M_Free

SpecMatrix == InitMatrix /\ [][NextMatrix]_vars

----------------------------------------------------------------------------
(* Vocabulary of the properties, read off the stack and the output alone   *)

EnumValues == {aux_var_type[n] : n \in DOMAIN aux_var_type}

EnumName(v) == CHOOSE n \in DOMAIN aux_var_type : aux_var_type[n] = v

(* address of the first NULL slot at or after address a *)
FirstNull(a) ==
    CHOOSE z \in a..Len(mem) :
        mem[z] = 0 /\ \A b \in a..(z - 1) : mem[b] # 0

(* the aux entries stored in the stack, numbered from 0 *)
AuxBase    == FirstNull(envp) + 1
NumEntries == (Len(mem) - AuxBase + 1) \div 2
EntryKey(n) == mem[AuxBase + 2 * n]
EntryVal(n) == mem[AuxBase + 2 * n + 1]

HasTerminator == \E n \in 0..(NumEntries - 1) : EntryKey(n) = 0

(* index of the first entry whose key is 0 *)
TermIndex ==
    CHOOSE n \in 0..(NumEntries - 1) :
        EntryKey(n) = 0 /\ \A m \in 0..(n - 1) : EntryKey(m) # 0

IsAuxLine(l) == l.kind = "aux"
IsEnvLine(l) == l.kind = "env"
IsAuxpLine(l) == l.kind = "auxp"

AuxLines == SelectSeq(out, IsAuxLine)

Started == pc # "idle"

----------------------------------------------------------------------------
(* C1: every constant of enum aux_var_type (0..17, 23..26, 31..33 and      *)
(* 40..47) is labelled by aux_var_type_to_str with exactly its own name.   *)
(* The switch has no case for 40..47, so this fails on the code.           *)
C1_KnownTagsLabelled ==
    (lpc = "returned" /\ type \in EnumValues) => ret = EnumName(type)

(* C2: every tag that is not a constant of the enumeration is labelled     *)
(* "Unknown", and every call returns some label.                           *)
C2_UnknownTagsFallBack ==
    lpc = "returned" =>
        /\ ret # ""
        /\ type \notin EnumValues => ret = "Unknown"

C2_Witness ==
    /\ lpc = "returned" /\ type = 18 /\ ret = "Unknown"

(* C3: when the first zero-key entry is entry t, the decode loop           *)
(* terminates, having printed exactly t+1 lines, one per entry 0..t in     *)
(* input order with the terminator last, and no word of an entry after t   *)
(* is ever read.                                                           *)
C3_Bounded ==
    (Started /\ HasTerminator) =>
        /\ \A a \in reads : a < AuxBase + 2 * (TermIndex + 1)
        /\ Len(AuxLines) <= TermIndex + 1
        /\ \A n \in 1..Len(AuxLines) : AuxLines[n].key = EntryKey(n - 1)
        /\ pc = "done" => Len(AuxLines) = TermIndex + 1

C3_DecodeStopsAtTerminator ==
    /\ [] C3_Bounded
    /\ (Started /\ HasTerminator) ~> (pc = "done")

C3_Witness ==
    /\ pc = "done" /\ HasTerminator
    /\ TermIndex = 1 /\ NumEntries = 3 /\ EntryKey(2) # 0
    /\ Len(AuxLines) = 2

(* C4: without a zero-key entry in the stack the decode pass stops at the  *)
(* end of the stack and reports the malformed input: it reads no word      *)
(* outside the stack and does not bring the process down.                  *)
(* The loop has no bound, so this fails on the code.                       *)
C4_BoundedScan ==
    (Started /\ ~HasTerminator) =>
        /\ reads \subseteq DOMAIN mem
        /\ pc # "segv"

(* C5: the line of every entry up to and including the terminator carries  *)
(* the label of the entry's key, the entry's key and the entry's value.    *)
(* The closing line prints the constant 0 as value, so this fails on a     *)
(* terminator that stores another value.                                   *)
C5_LinesCarryEntries ==
    (pc = "done" /\ HasTerminator) =>
        /\ Len(AuxLines) = TermIndex + 1
        /\ \A n \in 0..TermIndex :
             /\ AuxLines[n + 1].text = aux_var_type_to_str(EntryKey(n))
             /\ AuxLines[n + 1].key = EntryKey(n)
             /\ AuxLines[n + 1].val = EntryVal(n)

(* C6: over a terminated vector exactly one printed line has key 0, it is  *)
(* labelled "AtNull" and it is the last one.                               *)
C6_OneTerminalLine ==
    (Started /\ HasTerminator) =>
        /\ \A n \in 1..Len(AuxLines) :
             AuxLines[n].key = 0 <=> (pc = "done" /\ n = Len(AuxLines))
        /\ pc = "done" =>
             /\ Len(AuxLines) >= 1
             /\ AuxLines[Len(AuxLines)].text = "AtNull"

C6_Witness ==
    /\ pc = "done" /\ HasTerminator
    /\ Len(AuxLines) = 2
    /\ AuxLines[1].key = 6 /\ AuxLines[2].key = 0

(* C7: no step of main writes to the stack.                                *)
C7_StackReadOnly == [][mem' = mem]_vars

C7_Witness ==
    /\ pc = "done" /\ Len(AuxLines) = 3
    /\ reads # {}

(* C10: envpc is the number of envp slots before the first NULL, the scan  *)
(* of the auxiliary vector starts on the word right after that NULL, and   *)
(* the printing loop prints envpc lines.                                   *)
C10_AuxAfterEnvp ==
    /\ pc \in {"env_loop", "aux_loop", "aux_end", "done", "segv"} =>
         envpc = FirstNull(envp) - envp
    /\ pc \in {"aux_loop", "aux_end", "done", "segv"} =>
         /\ Len(SelectSeq(out, IsEnvLine)) = envpc
         /\ Len(SelectSeq(out, IsAuxpLine)) = 1
         /\ SelectSeq(out, IsAuxpLine)[1].p = FirstNull(envp) + 1
    /\ (pc = "aux_loop" /\ AuxLines = <<>>) => aux = FirstNull(envp) + 1

C10_Witness ==
    /\ pc = "aux_loop" /\ AuxLines = <<>>
    /\ envpc = 2 /\ aux = envp + 3
    /\ NumEntries >= 1

(* C9: both inputs hold n in cell n, every flat index used is in 0..8, no  *)
(* product or partial sum leaves the uint32 range, and the result is the   *)
(* exact matrix product [[15,18,21],[42,54,66],[69,90,111]].               *)
C9_ExactProduct ==
    /\ mpc = "init_body" => Flat(i, j) \in 0..(DIM * DIM - 1)
    /\ mpc \in {"alloc_res", "mul_i", "mul_j", "mul_k", "mul_body"} =>
         /\ matrix1 = [n \in 0..(DIM * DIM - 1) |-> n]
         /\ matrix2 = [n \in 0..(DIM * DIM - 1) |-> n]
    /\ mpc = "mul_body" =>
         /\ Flat(i, k) \in 0..(DIM * DIM - 1)
         /\ Flat(k, j) \in 0..(DIM * DIM - 1)
         /\ matrix1[Flat(i, k)] * matrix2[Flat(k, j)] <= 2147483647
         /\ sum + matrix1[Flat(i, k)] * matrix2[Flat(k, j)] <= 2147483647
    /\ mpc = "mul_k" => Flat(i, j) \in 0..(DIM * DIM - 1)
    /\ mpc \in {"print_i", "print_j", "done"} =>
         /\ res_matrix = [n \in 0..8 |->
                            <<15, 18, 21, 42, 54, 66, 69, 90, 111>>[n + 1]]
         /\ \A r \in 0..2, c \in 0..2 :
              res_matrix[r * 3 + c] =
                  (r * 3 + 0) * (0 * 3 + c) + (r * 3 + 1) * (1 * 3 + c)
                  + (r * 3 + 2) * (2 * 3 + c)

C9_Witness ==
    /\ mpc = "done"
    /\ res_matrix[0] = 15 /\ res_matrix[4] = 54 /\ res_matrix[8] = 111

====
